---- MODULE Spec2Model ----
(***************************************************************************)
(* A model of gds2ascii.py: the GDSII record reader (readStream), the      *)
(* field decoder (extractData), the IBM/370 float converter                *)
(* (ibm370_to_ieee754), the record name lookup (appendName) and the loop   *)
(* of main that drives them over one input file.                           *)
(*                                                                         *)
(* A byte is a number in 0..255, a bytes object a sequence of bytes, the   *)
(* input file the sequence `stream` with the 0-based file position `pos`.  *)
(* A Python exception that leaves a function is the value Raised(kind) it  *)
(* returns in the model; an exception that leaves main ends the run in     *)
(* pc = "error".                                                           *)
(***************************************************************************)
EXTENDS Integers, Sequences, FiniteSets, TLC

VARIABLES stream, outputFile, pos, record, data, name, asciiOut, sink, pc,
          reads, ibm_bytes, ieee754_value

vars == <<stream, outputFile, pos, record, data, name, asciiOut, sink, pc,
          reads, ibm_bytes, ieee754_value>>

---------------------------------------------------------------------------
(* Bounds of the model's inputs.                                           *)

\* the input file holds at most MaxRecs frames
MaxRecs == 2
\* at most MaxCut bytes are missing from the end of the input file
MaxCut == 2

---------------------------------------------------------------------------
(* Python values.                                                          *)

Min(a, b) == IF a < b THEN a ELSE b

\* the int -1 that readStream returns once anything in it raised
MinusOne == <<-1>>

\* what a call gives: the value it returns, or the exception that leaves it
Returned(v) == [exc |-> "none", val |-> v]
Raised(kind) == [exc |-> kind, val |-> <<>>]

\* `record`, `data` and `name` before their first assignment, and the
\* arguments and result of a call not made
Unset == <<>>
NoName == ""
NotCalled == [exc |-> "not called", val |-> <<>>]

\* the output file: not written, or holding the list json.dump wrote
NotWritten == [written |-> FALSE, content |-> <<>>]
Written(out) == [written |-> TRUE, content |-> out]

\* stream.read(n) at position p: the bytes got (fewer than n at the end of
\* the file, none beyond it) and the position after them
read(s, p, n) ==
    LET q == Min(p + n, Len(s))
    IN [bytes |-> SubSeq(s, p + 1, q), pos |-> q]

\* struct.unpack('>h', b)[0]: a signed big-endian 16-bit integer
unpack_h(b) ==
    IF Len(b) # 2 THEN Raised("struct.error")
    ELSE LET v == b[1] * 256 + b[2]
         IN Returned(IF v >= 32768 THEN v - 65536 ELSE v)

\* an int, a float and a str among the decoded values of a record
PyInt(v) == [int |-> v]
AsInt(r) == IF r.exc # "none" THEN r ELSE Returned(PyInt(r.val))
Float32(s, e, f) == [sign |-> s, exponent |-> e, fraction |-> f]
Chr(c) == [chr |-> c]

\* struct.unpack('>b', b)[0]: a signed 8-bit integer
unpack_b(b) ==
    IF Len(b) # 1 THEN Raised("struct.error")
    ELSE Returned(IF b[1] >= 128 THEN b[1] - 256 ELSE b[1])

\* struct.unpack('>l', b)[0]: a signed big-endian 32-bit integer
unpack_l(b) ==
    IF Len(b) # 4 THEN Raised("struct.error")
    ELSE LET top == IF b[1] >= 128 THEN b[1] - 256 ELSE b[1]
         IN Returned(top * 16777216 + b[2] * 65536 + b[3] * 256 + b[4])

\* struct.unpack('>f', b)[0]: the IEEE 754 single the four bytes are, kept
\* as its three bit fields
unpack_f(b) ==
    IF Len(b) # 4 THEN Raised("struct.error")
    ELSE Returned(Float32(b[1] \div 128,
                          (b[1] % 128) * 2 + b[2] \div 128,
                          (b[2] % 128) * 65536 + b[3] * 256 + b[4]))

\* struct.unpack('>c', b)[0].decode("utf-8"): the character of one byte;
\* a byte of 0x80 and above is no complete UTF-8 sequence
unpack_c_decode(b) ==
    IF Len(b) # 1 THEN Raised("struct.error")
    ELSE IF b[1] >= 128 THEN Raised("UnicodeDecodeError")
    ELSE Returned(Chr(b[1]))

---------------------------------------------------------------------------
(* readStream                                                              *)

\* the width of one element of each data type
dat_size ==
    (0 :> 1) @@ (1 :> 1) @@ (2 :> 2) @@ (3 :> 4) @@ (4 :> 4) @@ (5 :> 8) @@ (6 :> 1)

\* the loop of readStream: n reads of w bytes each, from position p on;
\* the i-th read starts where the one before it ended, at p + (i - 1) * w
\* or at the end of the file, and no read happens for n <= 0. (p0, w0 and
\* n0 are p, w and n, bound so that they are values, not expressions
\* evaluated again for every i.)
read_loop(s, p, w, n) ==
    CHOOSE l \in
        { [rec_data |-> [i \in 1..n0 |->
                            read(s, Min(p0 + (i - 1) * w0, Len(s)), w0).bytes],
           pos      |-> IF n0 > 0 THEN Min(p0 + n0 * w0, Len(s)) ELSE p0] :
             p0 \in {p}, w0 \in {w}, n0 \in {n} } : TRUE

\* Local([x \in {e} |-> body]) is body with x the value of e, computed
\* once: the assignment x = e of the code and what follows it
Local(f) ==
    CHOOSE y \in { g[CHOOSE x \in DOMAIN g : TRUE] : g \in {f} } : TRUE

\* readStream with the element count taken from the whole declared length,
\* the four header bytes not subtracted
readStream_CountsHeader(s, p) ==
    Local([r1 \in {read(s, p, 2)} |->
    Local([rec_size \in {unpack_h(r1.bytes)} |->
    Local([r2 \in {read(s, r1.pos, 1)} |->
    Local([rec_type \in {unpack_b(r2.bytes)} |->
    Local([r3 \in {read(s, r2.pos, 1)} |->
    Local([dat_type \in {unpack_b(r3.bytes)} |->
       IF rec_size.exc # "none" THEN [ret |-> MinusOne, pos |-> r1.pos]
       ELSE IF rec_type.exc # "none" THEN [ret |-> MinusOne, pos |-> r2.pos]
       ELSE IF dat_type.exc # "none" THEN [ret |-> MinusOne, pos |-> r3.pos]
       ELSE IF dat_type.val \notin DOMAIN dat_size
            THEN [ret |-> MinusOne, pos |-> r3.pos]
       ELSE Local([w \in {dat_size[dat_type.val]} |->
            Local([l \in {read_loop(s, r3.pos, w, rec_size.val \div w)} |->
               [ret |-> <<rec_size.val, <<rec_type.val, dat_type.val>>, l.rec_data>>,
                pos |-> l.pos] ]) ]) ]) ]) ]) ]) ]) ])

\* readStream(stream) with the file at position p: what it returns (the
\* list [rec_size, [rec_type, dat_type], rec_data], or -1 once anything
\* raised) and the position it leaves the file at
readStream(s, p) ==
    Local([r1 \in {read(s, p, 2)} |->
    Local([rec_size \in {unpack_h(r1.bytes)} |->
    Local([r2 \in {read(s, r1.pos, 1)} |->
    Local([rec_type \in {unpack_b(r2.bytes)} |->
    Local([r3 \in {read(s, r2.pos, 1)} |->
    Local([dat_type \in {unpack_b(r3.bytes)} |->
       IF rec_size.exc # "none" THEN [ret |-> MinusOne, pos |-> r1.pos]
       ELSE IF rec_type.exc # "none" THEN [ret |-> MinusOne, pos |-> r2.pos]
       ELSE IF dat_type.exc # "none" THEN [ret |-> MinusOne, pos |-> r3.pos]
       ELSE IF dat_type.val \notin DOMAIN dat_size
            THEN [ret |-> MinusOne, pos |-> r3.pos]
       ELSE Local([w \in {dat_size[dat_type.val]} |->
            Local([l \in {read_loop(s, r3.pos, w, (rec_size.val - 4) \div w)} |->
               [ret |-> <<rec_size.val, <<rec_type.val, dat_type.val>>, l.rec_data>>,
                pos |-> l.pos] ]) ]) ]) ]) ]) ]) ]) ])

---------------------------------------------------------------------------
(* ibm370_to_ieee754                                                       *)

\* A double of the model is exact: sign, a fraction of seven base-256
\* digits (mant[i] counts 1/256^i) and a power of two, the value being
\* +-0.mant * 2^exp2. Zero keeps its sign and has no exponent. The
\* rounding of the 56-bit fraction to the 53 bits of a double is not
\* modelled; it turns no non-zero fraction into zero and no zero into
\* anything else.
NoDigits == <<0, 0, 0, 0, 0, 0, 0>>
Zero(neg) == [neg |-> neg, mant |-> NoDigits, exp2 |-> 0]

\* the loop of [3]: mantissa += ibm_bytes[i] / divisor, divisor = 256^i,
\* for i from 1 to 7 (ibm_bytes[i] is b[i + 1], sequences counting from 1)
RECURSIVE mantissa_loop(_, _, _)
mantissa_loop(b, i, mantissa) ==
    IF i >= 8 THEN Returned(mantissa)
    ELSE IF i + 1 > Len(b) THEN Raised("IndexError")
    ELSE mantissa_loop(b, i + 1, [mantissa EXCEPT ![i] = mantissa[i] + b[i + 1]])

\* math.ldexp(mantissa, exponent2), mantissa a fraction in [0, 1): zero
\* stays zero, a result of 2^1024 and above is an OverflowError
ldexp(mantissa, exponent2) ==
    IF mantissa = NoDigits THEN Returned(Zero(FALSE))
    ELSE IF exponent2 > 1024 THEN Raised("OverflowError")
    ELSE Returned([neg |-> FALSE, mant |-> mantissa, exp2 |-> exponent2])

\* sign * x for sign = -1.0 or +1.0
times_sign(negative, x) == [x EXCEPT !.neg = (negative # x.neg)]

\* ibm370_to_ieee754 with the exponent taken from the whole first byte, the
\* sign bit not masked off
ibm370_to_ieee754_NoMask(b) ==
    IF Len(b) < 1 THEN Raised("IndexError")
    ELSE LET negative == (b[1] \div 128) % 2 = 1
             exponent2 == 4 * (b[1] - 64)
             mantissa == mantissa_loop(b, 1, NoDigits)
             scaled == ldexp(mantissa.val, exponent2)
         IN IF mantissa.exc # "none" THEN mantissa
            ELSE IF scaled.exc # "none" THEN scaled
            ELSE Returned(times_sign(negative, scaled.val))

ibm370_to_ieee754(b) ==
    IF Len(b) < 1 THEN Raised("IndexError")
    ELSE LET negative == (b[1] \div 128) % 2 = 1
             exponent2 == 4 * ((b[1] % 128) - 64)
             mantissa == mantissa_loop(b, 1, NoDigits)
             scaled == ldexp(mantissa.val, exponent2)
         IN IF mantissa.exc # "none" THEN mantissa
            ELSE IF scaled.exc # "none" THEN scaled
            ELSE Returned(times_sign(negative, scaled.val))

---------------------------------------------------------------------------
(* appendName                                                              *)

name_list ==
    (0 :> "HEADER") @@
    (1 :> "BGNLIB") @@
    (2 :> "LIBNAME") @@
    (3 :> "UNITS") @@
    (4 :> "ENDLIB") @@
    (5 :> "BGNSTR") @@
    (6 :> "STRNAME") @@
    (7 :> "ENDSTR") @@
    (8 :> "BONDARY") @@
    (9 :> "PATH") @@
    (10 :> "SERF") @@
    (11 :> "AREF") @@
    (12 :> "TEXT") @@
    (13 :> "LAYER") @@
    (14 :> "DATATYPE") @@
    (15 :> "WIDTH") @@
    (16 :> "XY") @@
    (17 :> "ENDEL") @@
    (18 :> "SNAME") @@
    (19 :> "COLROW") @@
    (21 :> "NODE") @@
    (22 :> "TEXTTYPE") @@
    (23 :> "PRESENTATION") @@
    (25 :> "STRING") @@
    (26 :> "STRANS") @@
    (27 :> "MAG") @@
    (28 :> "ANGLE") @@
    (31 :> "REFLIBS") @@
    (32 :> "FONTS") @@
    (33 :> "PATHTYPE") @@
    (34 :> "GENERATIONS") @@
    (35 :> "ATTRATABLE") @@
    (38 :> "ELFLAGS") @@
    (42 :> "NODETYPE") @@
    (43 :> "PROPATTR") @@
    (44 :> "PROPVALUE") @@
    (45 :> "BOX") @@
    (46 :> "BOXTYPE") @@
    (47 :> "PLEX") @@
    (50 :> "TAPENUM") @@
    (51 :> "TAPECODE") @@
    (54 :> "FORMAT") @@
    (55 :> "MASK") @@
    (56 :> "ENDMASKS")

\* appendName looking the name up under record[1][1], the data type
appendName_ByDataType(rec) ==
    IF rec = MinusOne THEN Raised("TypeError")
    ELSE IF rec[2][2] \notin DOMAIN name_list THEN Raised("KeyError")
    ELSE Returned(name_list[rec[2][2]])

\* record[1][0] of a value that is the int -1 is a TypeError
appendName(rec) ==
    IF rec = MinusOne THEN Raised("TypeError")
    ELSE IF rec[2][1] \notin DOMAIN name_list THEN Raised("KeyError")
    ELSE Returned(name_list[rec[2][1]])

---------------------------------------------------------------------------
(* extractData                                                             *)

\* the int that struct.unpack gives, as a decoded value
unpack_h_int(b) == AsInt(unpack_h(b))
unpack_l_int(b) == AsInt(unpack_l(b))

\* what one loop of extractData makes of one chunk, by the loop's format
convert(fmt, chunk) ==
    IF fmt = ">h" THEN unpack_h_int(chunk)
    ELSE IF fmt = ">l" THEN unpack_l_int(chunk)
    ELSE IF fmt = ">f" THEN unpack_f(chunk)
    ELSE IF fmt = "ibm370" THEN ibm370_to_ieee754(chunk)
    ELSE unpack_c_decode(chunk)

\* one loop of extractData: data.append(convert(record[2][i])) for i in
\* range(0, n); record[2][i] is chunks[i + 1]
RECURSIVE extract_loop(_, _, _, _, _)
extract_loop(fmt, chunks, i, n, data_) ==
    IF i >= n THEN Returned(data_)
    ELSE IF i + 1 > Len(chunks) THEN Raised("IndexError")
    ELSE LET v == convert(fmt, chunks[i + 1])
         IN IF v.exc # "none" THEN v
            ELSE extract_loop(fmt, chunks, i + 1, n, Append(data_, v.val))

extractData(rec) ==
    IF rec = MinusOne THEN Raised("TypeError")
    ELSE LET dt == rec[2][2]
             chunks == rec[3]
         IN IF dt = 0 THEN Returned(<<>>)
            ELSE IF dt = 1 THEN Returned(<<>>)
            ELSE IF dt = 2
                 THEN extract_loop(">h", chunks, 0, (rec[1] - 4) \div 2, <<>>)
            ELSE IF dt = 3
                 THEN extract_loop(">l", chunks, 0, (rec[1] - 4) \div 4, <<>>)
            ELSE IF dt = 4
                 THEN extract_loop(">f", chunks, 0, (rec[1] - 4) \div 4, <<>>)
            ELSE IF dt = 5
                 THEN extract_loop("ibm370", chunks, 0, (rec[1] - 4) \div 8, <<>>)
            ELSE extract_loop(">c", chunks, 0, rec[1] - 4, <<>>)

---------------------------------------------------------------------------
(* The input files of the model.                                           *)

\* the bytes of one frame: a header declaring the length sz, the record
\* type rt and the data type dt, and the bytes pay after it
Frame(sz, rt, dt, pay) ==
    <<(sz % 65536) \div 256, sz % 256, rt % 256, dt % 256>> \o pay

\* declared length, data type and payload of the frames
Bodies ==
    { <<4, 0, <<>>>>,
      <<6, 0, <<0, 4>>>>,
      <<6, 1, <<0, 4>>>>,
      <<6, 2, <<0, 3>>>>,
      <<5, 2, <<1>>>>,
      <<0, 0, <<>>>>,
      <<-1, 2, <<>>>>,
      <<4, 7, <<>>>>,
      <<5, 6, <<65>>>>,
      <<5, 6, <<128>>>>,
      <<8, 3, <<255, 255, 255, 254>>>>,
      <<8, 4, <<63, 128, 0, 0>>>>,
      <<12, 5, <<0, 0, 0, 0, 0, 0, 0, 0>>>> }

\* every body as a HEADER record; ENDLIB records, well-formed and not; and
\* a record of type 0x14, which name_list does not hold
Frames ==
    { Frame(b[1], 0, b[2], b[3]) : b \in Bodies }
        \cup { Frame(4, 4, 0, <<>>), Frame(0, 4, 0, <<>>),
                Frame(5, 4, 2, <<1>>), Frame(6, 4, 0, <<0, 4>>),
                Frame(4, 20, 0, <<>>) }

RECURSIVE Streams(_)
Streams(n) ==
    IF n = 0 THEN { <<>> }
    ELSE LET shorter == Streams(n - 1)
         IN shorter \cup { f \o s : f \in Frames, s \in shorter }

\* up to MaxRecs frames, up to MaxCut bytes short at the end
Inputs ==
    { SubSeq(s, 1, Len(s) - k) :
        s \in Streams(MaxRecs), k \in 0..MaxCut }

---------------------------------------------------------------------------
(* main: the loop over the records of the input file                       *)

\* `reads` is the history of the calls of readStream: the position before
\* the call, what it returned and the position after it.

\* main is entered: no file is open yet
Init ==
    /\ stream = <<>>
    /\ outputFile = FALSE
    /\ pos = 0
    /\ record = Unset
    /\ data = Unset
    /\ name = NoName
    /\ asciiOut = <<>>
    /\ sink = NotWritten
    /\ pc = "open"
    /\ reads = <<>>
    /\ ibm_bytes = Unset
    /\ ieee754_value = NotCalled

\* the command line names the input file and, or not, an output file; the
\* input file is opened, at position 0
Open ==
    /\ pc = "open"
    /\ stream' \in Inputs
    /\ outputFile' \in BOOLEAN
    /\ pc' = "read"
    /\ UNCHANGED <<pos, record, data, name, asciiOut, sink, reads,
                   ibm_bytes, ieee754_value>>

\* record = readStream(ifile)
ReadStream ==
    /\ pc = "read"
    /\ \E r \in {readStream(stream, pos)} :
          /\ record' = r.ret
          /\ pos' = r.pos
          /\ reads' = Append(reads, [start |-> pos, ret |-> r.ret, end |-> r.pos])
    /\ pc' = "extract"
    /\ UNCHANGED <<stream, outputFile, data, name, asciiOut, sink,
                   ibm_bytes, ieee754_value>>

\* main ending the loop as after the last record when readStream returned -1
ExtractData_FailedReadEndsLoop ==
    /\ pc = "extract"
    /\ LET r == extractData(record)
       IN IF record = MinusOne
          THEN pc' = "dump" /\ UNCHANGED data
          ELSE IF r.exc # "none"
          THEN pc' = "error" /\ UNCHANGED data
          ELSE pc' = "name" /\ data' = r.val
    /\ UNCHANGED <<stream, outputFile, pos, record, name, asciiOut, sink,
                   reads, ibm_bytes, ieee754_value>>

\* main reading again when readStream returned -1
ExtractData_FailedReadIsRetried ==
    /\ pc = "extract"
    /\ LET r == extractData(record)
       IN IF record = MinusOne
          THEN pc' = "read" /\ UNCHANGED data
          ELSE IF r.exc # "none"
          THEN pc' = "error" /\ UNCHANGED data
          ELSE pc' = "name" /\ data' = r.val
    /\ UNCHANGED <<stream, outputFile, pos, record, name, asciiOut, sink,
                   reads, ibm_bytes, ieee754_value>>

\* data = extractData(record); an exception leaves main
ExtractData ==
    /\ pc = "extract"
    /\ LET r == extractData(record)
       IN IF r.exc # "none"
          THEN pc' = "error" /\ UNCHANGED data
          ELSE pc' = "name" /\ data' = r.val
    /\ UNCHANGED <<stream, outputFile, pos, record, name, asciiOut, sink,
                   reads, ibm_bytes, ieee754_value>>

\* main skipping a record whose type has no name
AppendName_SkipsUnknownType ==
    /\ pc = "name"
    /\ LET r == appendName(record)
       IN IF r.exc # "none"
          THEN pc' = "read" /\ UNCHANGED name
          ELSE pc' = "append" /\ name' = r.val
    /\ UNCHANGED <<stream, outputFile, pos, record, data, asciiOut, sink,
                   reads, ibm_bytes, ieee754_value>>

\* name = appendName(record); an exception leaves main
AppendName ==
    /\ pc = "name"
    /\ LET r == appendName(record)
       IN IF r.exc # "none"
          THEN pc' = "error" /\ UNCHANGED name
          ELSE pc' = "append" /\ name' = r.val
    /\ UNCHANGED <<stream, outputFile, pos, record, data, asciiOut, sink,
                   reads, ibm_bytes, ieee754_value>>

\* main breaking on record[1][1], the data type, being 0x04
AppendOut_BreaksOnDataType ==
    /\ pc = "append"
    /\ asciiOut' = Append(asciiOut, <<name, data>>)
    /\ pc' = IF record[2][2] = 4 THEN "dump" ELSE "read"
    /\ UNCHANGED <<stream, outputFile, pos, record, data, name, sink,
                   reads, ibm_bytes, ieee754_value>>

\* asciiOut.append([name, data]); break after the record of type 0x04
AppendOut ==
    /\ pc = "append"
    /\ asciiOut' = Append(asciiOut, <<name, data>>)
    /\ pc' = IF record[2][1] = 4 THEN "dump" ELSE "read"
    /\ UNCHANGED <<stream, outputFile, pos, record, data, name, sink,
                   reads, ibm_bytes, ieee754_value>>

\* after the loop: json.dump(asciiOut, ofile) when an output file is named
Dump ==
    /\ pc = "dump"
    /\ sink' = IF outputFile THEN Written(asciiOut) ELSE sink
    /\ pc' = "done"
    /\ UNCHANGED <<stream, outputFile, pos, record, data, name, asciiOut,
                   reads, ibm_bytes, ieee754_value>>

Next == Open \/ ReadStream \/ ExtractData \/ AppendName \/ AppendOut \/ Dump

Spec == Init /\ [][Next]_vars

\* main runs to its end or to the exception that leaves it
FairSpec == Spec /\ WF_vars(Next)

---------------------------------------------------------------------------
(* The converter on its own: one call on an 8-byte input.                  *)

\* first bytes (sign and exponent), second bytes, fillers of bytes 3 to 7
\* and last bytes of the inputs, and the two examples of the source
FloatInputs ==
    { <<b0, b1, m, m, m, m, m, b7>> :
        b0 \in {0, 1, 62, 64, 65, 127, 128, 193, 255},
        b1 \in {0, 16, 65, 255}, m \in {0, 255}, b7 \in {0, 1, 255} }
      \cup { <<62, 65, 137, 55, 75, 198, 167, 240>>,
             <<57, 68, 184, 47, 160, 155, 90, 84>> }

FloatInit ==
    /\ ibm_bytes \in FloatInputs
    /\ ieee754_value = NotCalled
    /\ pc = "convert"
    /\ stream = <<>>
    /\ outputFile = FALSE
    /\ pos = 0
    /\ record = Unset
    /\ data = Unset
    /\ name = NoName
    /\ asciiOut = <<>>
    /\ sink = NotWritten
    /\ reads = <<>>

\* ieee754_value = ibm370_to_ieee754(ibm_bytes)
Convert ==
    /\ pc = "convert"
    /\ ieee754_value' = ibm370_to_ieee754(ibm_bytes)
    /\ pc' = "converted"
    /\ UNCHANGED <<stream, outputFile, pos, record, data, name, asciiOut,
                   sink, reads, ibm_bytes>>

FloatNext == Convert

FloatSpec == FloatInit /\ [][FloatNext]_vars

---------------------------------------------------------------------------
(* The framing of the input file as the format defines it, read off the    *)
(* bytes of `stream`: what the claims below say the program does with a    *)
(* record is stated against this, not against what readStream returned.    *)

HasHeader(s, o) == o + 4 <= Len(s)
Signed16(hi, lo) == IF hi >= 128 THEN hi * 256 + lo - 65536 ELSE hi * 256 + lo
Signed8(b) == IF b >= 128 THEN b - 256 ELSE b
LengthAt(s, o) == Signed16(s[o + 1], s[o + 2])
RecTypeAt(s, o) == Signed8(s[o + 3])
DataTypeAt(s, o) == Signed8(s[o + 4])
KnownDataType(s, o) == DataTypeAt(s, o) \in DOMAIN dat_size
WidthAt(s, o) == dat_size[DataTypeAt(s, o)]
PayloadAt(s, o) == SubSeq(s, o + 5, o + LengthAt(s, o))

\* a valid record starts at offset o: length >= 4, known data type,
\* (length - 4) a multiple of the element width, the whole payload there
ValidAt(s, o) ==
    /\ HasHeader(s, o)
    /\ LengthAt(s, o) >= 4
    /\ KnownDataType(s, o)
    /\ (LengthAt(s, o) - 4) % WidthAt(s, o) = 0
    /\ o + LengthAt(s, o) <= Len(s)

\* the i-th call of readStream returned a record, not -1
ReturnedRecord(i) == reads[i].ret # MinusOne

\* the Driver's states
Reading == pc \in {"read", "extract", "name", "append"}
Done == pc \in {"dump", "done"}
Error == pc = "error"

\* the sum of the declared lengths of the first n records read
RECURSIVE SumLengths(_)
SumLengths(n) ==
    IF n = 0 THEN 0 ELSE SumLengths(n - 1) + LengthAt(stream, reads[n].start)

AllValidBefore(i) == \A j \in 1..(i - 1) : ValidAt(stream, reads[j].start)

\* C1: a read of a valid record returns it and leaves the file exactly its
\* declared length past its start; so, while every record read so far was
\* valid, each read starts, and each iteration of the loop finds the file,
\* at the sum of the declared lengths of the records read before.
C1_ReadAdvancesByLength ==
    /\ \A i \in DOMAIN reads :
          /\ ValidAt(stream, reads[i].start) =>
                /\ ReturnedRecord(i)
                /\ reads[i].end = reads[i].start + LengthAt(stream, reads[i].start)
          /\ AllValidBefore(i) => reads[i].start = SumLengths(i - 1)
    /\ (pc = "read" /\ AllValidBefore(Len(reads) + 1)) => pos = SumLengths(Len(reads))

\* two valid records read, the first with a payload, the loop at its third
\* iteration
C1_Witness ==
    /\ pc = "read"
    /\ Len(reads) = 2
    /\ AllValidBefore(3)
    /\ LengthAt(stream, 0) > 4
    /\ pos = SumLengths(2)

\* the record at offset o declares a length of 4 or more that is not 4 plus
\* a multiple of its data type's element width
NotMultipleAt(s, o) ==
    /\ HasHeader(s, o)
    /\ LengthAt(s, o) >= 4
    /\ KnownDataType(s, o)
    /\ (LengthAt(s, o) - 4) % WidthAt(s, o) # 0

\* C2: a record whose (length - 4) is not a multiple of its element width
\* is never returned by readStream and never becomes an entry of the output.
C2_NoSilentTruncation ==
    \A i \in DOMAIN reads :
        NotMultipleAt(stream, reads[i].start) =>
            /\ ~ReturnedRecord(i)
            /\ Len(asciiOut) < i

\* C3: when the loop has ended by its break, the last record read has type
\* 0x04, was read, decoded and named without an exception and is the last
\* entry of the output, and no record read before it had type 0x04.
C3_DoneOnlyAtTerminator ==
    Done =>
        LET n == Len(reads)
        IN /\ n >= 1
           /\ ReturnedRecord(n)
           /\ HasHeader(stream, reads[n].start)
           /\ RecTypeAt(stream, reads[n].start) = 4
           /\ extractData(reads[n].ret).exc = "none"
           /\ appendName(reads[n].ret).exc = "none"
           /\ Len(asciiOut) = n
           /\ asciiOut[n][1] = "ENDLIB"
           /\ \A j \in 1..(n - 1) :
                 /\ ReturnedRecord(j)
                 /\ RecTypeAt(stream, reads[j].start) # 4

\* the run is over after a second record, of type 0x04
C3_Witness ==
    /\ pc = "done"
    /\ Len(reads) = 2
    /\ RecTypeAt(stream, reads[2].start) = 4

\* C4: a read attempted at the end of the file returns -1 and is the last
\* read of the run; the run is then on its way into Error or in it, and
\* neither an entry for that read nor the output file is written.
C4_EndOfSourceIsFatal ==
    \A i \in DOMAIN reads :
        reads[i].start = Len(stream) =>
            /\ ~ReturnedRecord(i)
            /\ i = Len(reads)
            /\ pc \in {"extract", "error"}
            /\ Len(asciiOut) = i - 1
            /\ ~sink.written

\* the run ended in Error on a read at the end of a file of which a record
\* was read and appended before
C4_Witness ==
    /\ Error
    /\ Len(reads) >= 2
    /\ reads[Len(reads)].start = Len(stream)
    /\ Len(asciiOut) = Len(reads) - 1

\* the record at offset o has a header and a known data type, and declares
\* more elements than the bytes left in the file can fill
ShortPayloadAt(s, o) ==
    /\ HasHeader(s, o)
    /\ KnownDataType(s, o)
    /\ LET n == (LengthAt(s, o) - 4) \div WidthAt(s, o)
       IN n > 0 /\ o + 4 + n * WidthAt(s, o) > Len(s)

\* C5: a record with fewer payload bytes left in the file than its declared
\* elements need is never returned by readStream and never becomes an entry
\* of the output, whatever its data type.
C5_TruncatedPayloadFails ==
    \A i \in DOMAIN reads :
        ShortPayloadAt(stream, reads[i].start) =>
            /\ ~ReturnedRecord(i)
            /\ Len(asciiOut) < i

\* C6: every record readStream returns declares a length of 4 or more; a
\* header with a length below 4 never becomes an entry of the output.
C6_LengthAtLeastFour ==
    \A i \in DOMAIN reads :
        /\ ReturnedRecord(i) => reads[i].ret[1] >= 4
        /\ (HasHeader(stream, reads[i].start) /\ LengthAt(stream, reads[i].start) < 4)
              => /\ ~ReturnedRecord(i)
                 /\ Len(asciiOut) < i

\* the i-th record read failed: in readStream, in extractData or in
\* appendName
ReadFailed(i) == ~ReturnedRecord(i)
DecodeFailed(i) == extractData(reads[i].ret).exc # "none"
NameFailed(i) == appendName(reads[i].ret).exc # "none"

\* C7: a record that fails in the read, in the field decoding or in the
\* name lookup is the last one read; no entry is appended for it, the run
\* goes from Reading into Error without passing the append, never reaches
\* Done, and the output file is not written.
C7_AnyFailureIsFatal ==
    \A i \in DOMAIN reads :
        (ReadFailed(i) \/ DecodeFailed(i) \/ NameFailed(i)) =>
            /\ i = Len(reads)
            /\ Len(asciiOut) = i - 1
            /\ ~sink.written
            /\ IF ReadFailed(i) \/ DecodeFailed(i)
               THEN pc \in {"extract", "error"}
               ELSE pc \in {"extract", "name", "error"}

\* the run ended in Error on a record whose type has no name, after one
\* record was appended
C7_Witness ==
    /\ Error
    /\ Len(reads) = 2
    /\ ~ReadFailed(2) /\ ~DecodeFailed(2) /\ NameFailed(2)
    /\ Len(asciiOut) = 1

\* the record at offset o is valid and its type has a name
NamedValidAt(s, o) == ValidAt(s, o) /\ RecTypeAt(s, o) \in DOMAIN name_list

\* no byte of an ASCII payload at offset o is 0x80 or above
DecodableAt(s, o) ==
    DataTypeAt(s, o) = 6 =>
        \A k \in DOMAIN PayloadAt(s, o) : PayloadAt(s, o)[k] < 128

\* The offsets of the records of a stream of valid, named records (each
\* decodable too when `decodable` is asked for) of which the last and only
\* the last has type 0x04, counted from offset o; <<>> when the bytes from
\* o on are no such stream.
RECURSIVE Starts(_, _, _)
Starts(s, o, decodable) ==
    IF ~NamedValidAt(s, o) \/ (decodable /\ ~DecodableAt(s, o)) THEN <<>>
    ELSE IF RecTypeAt(s, o) = 4 THEN <<o>>
    ELSE LET rest == Starts(s, o + LengthAt(s, o), decodable)
         IN IF rest = <<>> THEN <<>> ELSE <<o>> \o rest

\* the run over the records at the offsets st never fails, appends no more
\* than one entry per record, and ends with one entry per record, in stream
\* order and under the record's name, the file left at the end of the last
\* record
DecodesTo(st) ==
    LET n == Len(st)
    IN /\ ~Error
       /\ Len(asciiOut) <= n
       /\ Len(reads) <= n
       /\ \A i \in DOMAIN reads : reads[i].start = st[i]
       /\ \A i \in DOMAIN asciiOut :
             asciiOut[i][1] = name_list[RecTypeAt(stream, st[i])]
       /\ Done =>
             /\ Len(asciiOut) = n
             /\ pos = st[n] + LengthAt(stream, st[n])
       /\ pc = "done" =>
             sink = IF outputFile THEN Written(asciiOut) ELSE NotWritten

\* C8 as stated: a stream of n valid records with known types, only the
\* n-th of type 0x04, is decoded without error into n entries in stream
\* order, each under its record's name, and nothing after the n-th record
\* is read.
C8_ValidStreamDecodes ==
    Starts(stream, 0, FALSE) # <<>> => DecodesTo(Starts(stream, 0, FALSE))

\* C8, amended: the same, for streams whose ASCII payloads hold no byte of
\* 0x80 or above.
C8_DecodableStreamDecodes ==
    Starts(stream, 0, TRUE) # <<>> => DecodesTo(Starts(stream, 0, TRUE))

\* the run is over on a HEADER record with a payload followed by ENDLIB
C8_Witness ==
    /\ pc = "done"
    /\ Starts(stream, 0, TRUE) = <<0, 6>>
    /\ RecTypeAt(stream, 0) = 0
    /\ Len(asciiOut) = 2

\* C9: the conversion raises nothing on any 8-byte input and gives the
\* value of the formula: negative exactly when bit 7 of byte 0 is set, the
\* fraction of the digits byte 1 to byte 7, and, unless that fraction is
\* zero, the binary exponent 4 * ((byte 0 & 0x7F) - 64); eight zero bytes
\* give +0.0.
C9_ConvertTotalAndZero ==
    pc = "converted" =>
        /\ ieee754_value.exc = "none"
        /\ ieee754_value.val.neg = (ibm_bytes[1] >= 128)
        /\ ieee754_value.val.mant = SubSeq(ibm_bytes, 2, 8)
        /\ ieee754_value.val.mant # NoDigits =>
              ieee754_value.val.exp2 = 4 * ((ibm_bytes[1] % 128) - 64)
        /\ ibm_bytes = <<0, 0, 0, 0, 0, 0, 0, 0>> =>
              ieee754_value.val = Zero(FALSE)

\* eight zero bytes were converted
C9_Witness ==
    /\ pc = "converted"
    /\ ibm_bytes = <<0, 0, 0, 0, 0, 0, 0, 0>>
    /\ ieee754_value = Returned(Zero(FALSE))

\* every read that returned a record took its four header bytes at least,
\* and every read after the first starts beyond the start of the one before
ReadsAdvance ==
    \A i \in DOMAIN reads :
        /\ ReturnedRecord(i) => reads[i].end >= reads[i].start + 4
        /\ i > 1 => reads[i].start > reads[i - 1].start

\* C10: the position grows with every iteration of the loop, and the loop
\* is left in the end, into Done or into Error, whatever lengths the
\* records declare.
C10_LoopIsLeft == []ReadsAdvance /\ <>(Done \/ Error)

\* a run over a first record that declares a length below 4 has ended
C10_Witness ==
    /\ pc \in {"done", "error"}
    /\ Len(reads) >= 2
    /\ LengthAt(stream, 0) < 4

====
